---- MODULE Spec2Model ----
(***************************************************************************)
(* PipelineDefinition of the model server (src/src/pipelinedefinition.cpp):*)
(* the graph validator, the subscription bookkeeping, and the              *)
(* reload / retire / create protocol around requestsHandlesCounter.        *)
(*                                                                         *)
(* Two specifications share the operators below:                           *)
(*   Spec   request threads (create) and control threads (reload, retire)  *)
(*          interleaved statement by statement on one definition;          *)
(*   SpecV  one thread that assembles node and connection records, loads   *)
(*          them with reload and observes the status validate returns.     *)
(***************************************************************************)
EXTENDS Integers, Sequences, FiniteSets, TLC

(***************************************************************************)
(* Bounds of the model.                                                    *)
(***************************************************************************)
MaxCycleNodes == 3
MaxCycleEdges == 4
NumReaders == 2
NumWriters == 2
MaxNodes == 3
MaxEdges == 3
MaxModelNodes == 4
MaxModelEdges == 3
MaxSubscribers == 3

(***************************************************************************)
(* Status codes (StatusCode::...).                                         *)
(***************************************************************************)
OK == "OK"
MISSING_ENTRY_OR_EXIT == "PIPELINE_MISSING_ENTRY_OR_EXIT"
MULTIPLE_ENTRY_NODES == "PIPELINE_MULTIPLE_ENTRY_NODES"
MULTIPLE_EXIT_NODES == "PIPELINE_MULTIPLE_EXIT_NODES"
NODE_NAME_DUPLICATE == "PIPELINE_NODE_NAME_DUPLICATE"
CYCLE_FOUND == "PIPELINE_CYCLE_FOUND"
CONTAINS_UNCONNECTED_NODES == "PIPELINE_CONTAINS_UNCONNECTED_NODES"
REFERING_TO_MISSING_NODE == "PIPELINE_NODE_REFERING_TO_MISSING_NODE"
REFERING_TO_MISSING_MODEL == "PIPELINE_NODE_REFERING_TO_MISSING_MODEL"
REFERING_TO_MISSING_DATA_SOURCE == "PIPELINE_NODE_REFERING_TO_MISSING_DATA_SOURCE"
REFERING_TO_MISSING_MODEL_OUTPUT == "PIPELINE_NODE_REFERING_TO_MISSING_MODEL_OUTPUT"
CONNECTION_TO_MISSING_NODE_INPUT == "PIPELINE_CONNECTION_TO_MISSING_NODE_INPUT"
NOT_ALL_INPUTS_CONNECTED == "PIPELINE_NOT_ALL_INPUTS_CONNECTED"
INVALID_SHAPE == "INVALID_SHAPE"
INVALID_PRECISION == "INVALID_PRECISION"
FORBIDDEN_MODEL_DYNAMIC_PARAMETER == "FORBIDDEN_MODEL_DYNAMIC_PARAMETER"
UNKNOWN_ERROR == "UNKNOWN_ERROR"
MODEL_VERSION_NOT_LOADED_YET == "MODEL_VERSION_NOT_LOADED_YET"
MODEL_VERSION_NOT_LOADED_ANYMORE == "MODEL_VERSION_NOT_LOADED_ANYMORE"

(***************************************************************************)
(* Records.  A NodeInfo is [nodeName, kind, modelName, modelVersion,       *)
(* outputNameAliases]; modelVersion is std::optional: <<>> is nullopt and  *)
(* <<v>> holds v.  connections maps a dependant name to a map from         *)
(* dependency name to a sequence of <<alias, realName>> pairs.             *)
(***************************************************************************)
ENTRY == "ENTRY"
DL == "DL"
EXIT == "EXIT"

NoVersion == <<>>
NoAliases == <<>>
NoConnections == <<>>

value_or(opt, dflt) == IF opt = <<>> THEN dflt ELSE opt[1]

EntryInfo(name, aliases) ==
    [nodeName |-> name, kind |-> ENTRY, modelName |-> "", modelVersion |-> NoVersion,
     outputNameAliases |-> aliases]

ExitInfo(name) ==
    [nodeName |-> name, kind |-> EXIT, modelName |-> "", modelVersion |-> NoVersion,
     outputNameAliases |-> NoAliases]

DLInfo(name, model, version, aliases) ==
    [nodeName |-> name, kind |-> DL, modelName |-> model, modelVersion |-> version,
     outputNameAliases |-> aliases]

(***************************************************************************)
(* The model registry (ModelManager) the definition is validated against.  *)
(* Each model has a default version and instances by version; an instance  *)
(* has its batching mode, its shape modes and its tensor maps.             *)
(***************************************************************************)
T13 == [shape |-> <<1, 3>>, precision |-> "FP32"]
T15 == [shape |-> <<1, 5>>, precision |-> "FP32"]
T13I == [shape |-> <<1, 3>>, precision |-> "I8"]

Instance(batching, shapes, ins, outs) ==
    [batchingMode |-> batching, shapes |-> shapes, inputs |-> ins, outputs |-> outs]

Registry ==
    [M |-> [defaultVersion |-> 1,
            instances |-> (1 :> Instance("FIXED", [i |-> "FIXED"], [i |-> T13], [o |-> T13]))],
     W |-> [defaultVersion |-> 1,
            instances |-> (1 :> Instance("FIXED", [i |-> "FIXED"], [i |-> T15], [o |-> T13I]))],
     A |-> [defaultVersion |-> 1,
            instances |-> (1 :> Instance("AUTO", [i |-> "FIXED"], [i |-> T13], [o |-> T13]))],
     S |-> [defaultVersion |-> 1,
            instances |-> (1 :> Instance("FIXED", [i |-> "AUTO"], [i |-> T13], [o |-> T13]))]]

findModelByName(name) == name \in DOMAIN Registry

getModelInstanceByVersion(name, version) == version \in DOMAIN Registry[name].instances

\* version 0 selects the default version of the model
ResolveVersion(name, version) ==
    IF version = 0 THEN Registry[name].defaultVersion ELSE version

HasModelInstance(name, version) ==
    /\ findModelByName(name)
    /\ getModelInstanceByVersion(name, ResolveVersion(name, version))

getModelInstance(name, version) ==
    Registry[name].instances[ResolveVersion(name, version)]

(***************************************************************************)
(* Iteration order of the connection maps: by key.                         *)
(***************************************************************************)
NameOrder == <<"e", "g", "m", "n", "x">>

SortedKeys(S) == SelectSeq(NameOrder, LAMBDA k : k \in S)

\* connections[name]: operator[] of the map default-constructs a missing entry
IndexConnections(conns, name) ==
    IF name \in DOMAIN conns THEN conns
    ELSE [k \in DOMAIN conns \cup {name} |-> IF k = name THEN <<>> ELSE conns[k]]

NodeNames(nodes) == {nodes[i].nodeName : i \in 1..Len(nodes)}

\* std::find_if(nodeInfos.begin(), nodeInfos.end(), byName): the first match
FindNodeIndex(nodes, name) ==
    LET hits == {i \in 1..Len(nodes) : nodes[i].nodeName = name}
    IN IF hits = {} THEN 0 ELSE CHOOSE i \in hits : \A j \in hits : i <= j

CountKind(nodes, kind) == Cardinality({i \in 1..Len(nodes) : nodes[i].kind = kind})

CountName(nodes, name) == Cardinality({i \in 1..Len(nodes) : nodes[i].nodeName = name})

(***************************************************************************)
(* validateNode, lines 226-449.  The loops over the edges entering the     *)
(* dependant and over the pairs of one edge are recursions that carry the  *)
(* set remainingUnconnectedDependantModelInputs.                           *)
(***************************************************************************)
NoInstance == Instance("FIXED", <<>>, <<>>, <<>>)

\* a validatePair that compares the shapes of the two tensors only
validatePairShapeOnly(dependant, dependantInst, dependency, dependencyInst, pair, remaining) ==
    LET alias == pair[1]
        realName == pair[2]
        erased == IF dependant.kind = DL THEN remaining \ {realName} ELSE remaining
    IN IF dependant.kind = DL /\ realName \notin remaining
       THEN [status |-> CONNECTION_TO_MISSING_NODE_INPUT, remaining |-> remaining]
       ELSE IF alias \notin DOMAIN dependency.outputNameAliases
       THEN [status |-> REFERING_TO_MISSING_DATA_SOURCE, remaining |-> erased]
       ELSE IF /\ dependency.kind = DL
               /\ dependency.outputNameAliases[alias] \notin DOMAIN dependencyInst.outputs
       THEN [status |-> REFERING_TO_MISSING_MODEL_OUTPUT, remaining |-> erased]
       ELSE IF /\ dependant.kind = DL
               /\ dependency.kind = ENTRY
               /\ alias \notin DOMAIN dependency.outputNameAliases
       THEN [status |-> REFERING_TO_MISSING_DATA_SOURCE, remaining |-> erased]
       ELSE IF dependant.kind = DL /\ dependency.kind = DL
       THEN LET tensorInput == dependantInst.inputs[realName]
                tensorOutput == dependencyInst.outputs[dependency.outputNameAliases[alias]]
            IN IF tensorInput.shape # tensorOutput.shape
               THEN [status |-> INVALID_SHAPE, remaining |-> erased]
               ELSE [status |-> OK, remaining |-> erased]
       ELSE [status |-> OK, remaining |-> erased]

\* one (alias, realName) pair of an edge, lines 335-430
validatePair(dependant, dependantInst, dependency, dependencyInst, pair, remaining) ==
    LET alias == pair[1]
        realName == pair[2]
        erased == IF dependant.kind = DL THEN remaining \ {realName} ELSE remaining
    IN IF dependant.kind = DL /\ realName \notin remaining
       THEN [status |-> CONNECTION_TO_MISSING_NODE_INPUT, remaining |-> remaining]
       ELSE IF alias \notin DOMAIN dependency.outputNameAliases
       THEN [status |-> REFERING_TO_MISSING_DATA_SOURCE, remaining |-> erased]
       ELSE IF /\ dependency.kind = DL
               /\ dependency.outputNameAliases[alias] \notin DOMAIN dependencyInst.outputs
       THEN [status |-> REFERING_TO_MISSING_MODEL_OUTPUT, remaining |-> erased]
       ELSE IF /\ dependant.kind = DL
               /\ dependency.kind = ENTRY
               /\ alias \notin DOMAIN dependency.outputNameAliases
       THEN [status |-> REFERING_TO_MISSING_DATA_SOURCE, remaining |-> erased]
       ELSE IF dependant.kind = DL /\ dependency.kind = DL
       THEN LET tensorInput == dependantInst.inputs[realName]
                tensorOutput == dependencyInst.outputs[dependency.outputNameAliases[alias]]
            IN IF tensorInput.shape # tensorOutput.shape
               THEN [status |-> INVALID_SHAPE, remaining |-> erased]
               ELSE IF tensorInput.precision # tensorOutput.precision
               THEN [status |-> INVALID_PRECISION, remaining |-> erased]
               ELSE [status |-> OK, remaining |-> erased]
       ELSE [status |-> OK, remaining |-> erased]

RECURSIVE validateMapping(_, _, _, _, _, _, _)
\* after pair i of the mapping: return its error, else go on with the next pair
nextPair(dependant, dependantInst, dependency, dependencyInst, mapping, i, r) ==
    IF r.status # OK THEN r
    ELSE validateMapping(dependant, dependantInst, dependency, dependencyInst,
                         mapping, i + 1, r.remaining)

validateMapping(dependant, dependantInst, dependency, dependencyInst, mapping, i, remaining) ==
    IF i > Len(mapping) THEN [status |-> OK, remaining |-> remaining]
    ELSE nextPair(dependant, dependantInst, dependency, dependencyInst, mapping, i,
                  validatePair(dependant, dependantInst, dependency, dependencyInst,
                               mapping[i], remaining))

\* one edge (dependencyNodeName, mapping) entering the dependant, lines 283-431
validateEdge(nodes, dependant, dependantInst, dependencyNodeName, mapping, remaining) ==
    IF dependant.kind = ENTRY
    THEN IF Len(mapping) > 0
         THEN [status |-> UNKNOWN_ERROR, remaining |-> remaining]
         ELSE [status |-> OK, remaining |-> remaining]
    ELSE LET idx == FindNodeIndex(nodes, dependencyNodeName)
         IN IF idx = 0
            THEN [status |-> REFERING_TO_MISSING_NODE, remaining |-> remaining]
            ELSE LET dependency == nodes[idx]
                     version == value_or(dependency.modelVersion, 0)
                 IN IF dependency.kind = EXIT
                    THEN [status |-> UNKNOWN_ERROR, remaining |-> remaining]
                    ELSE IF /\ dependency.kind = DL
                            /\ ~HasModelInstance(dependency.modelName, version)
                    THEN [status |-> REFERING_TO_MISSING_MODEL, remaining |-> remaining]
                    ELSE validateMapping(dependant, dependantInst, dependency,
                             IF dependency.kind = DL
                             THEN getModelInstance(dependency.modelName, version)
                             ELSE NoInstance,
                             mapping, 1, remaining)

RECURSIVE validateEdges(_, _, _, _, _, _, _)
\* after edge i: return its error, else go on with the next edge
nextEdge(nodes, dependant, dependantInst, edges, keys, i, r) ==
    IF r.status # OK THEN r
    ELSE validateEdges(nodes, dependant, dependantInst, edges, keys, i + 1, r.remaining)

validateEdges(nodes, dependant, dependantInst, edges, keys, i, remaining) ==
    IF i > Len(keys) THEN [status |-> OK, remaining |-> remaining]
    ELSE nextEdge(nodes, dependant, dependantInst, edges, keys, i,
                  validateEdge(nodes, dependant, dependantInst, keys[i], edges[keys[i]],
                               remaining))

\* a validateNode that does not look at the inputs left unconnected
checkEdgesOnly(indexed, r) == [status |-> r.status, conns |-> indexed]

\* lines 433-448, after the loop over the edges
checkAllInputsConnected(indexed, r) ==
    IF r.status # OK THEN [status |-> r.status, conns |-> indexed]
    ELSE IF r.remaining # {} THEN [status |-> NOT_ALL_INPUTS_CONNECTED, conns |-> indexed]
    ELSE [status |-> OK, conns |-> indexed]

\* lines 283-448 on connections with the entry of the dependant in place
validateNodeEdges(nodes, indexed, dependant, inst) ==
    checkAllInputsConnected(indexed,
        validateEdges(nodes, dependant, inst, indexed[dependant.nodeName],
                      SortedKeys(DOMAIN indexed[dependant.nodeName]), 1,
                      IF dependant.kind = DL THEN DOMAIN inst.inputs ELSE {}))

\* a validateNode that bans dynamic batch size but not dynamic shape
validateNodeBatchingOnly(nodes, conns, dependant, inst) ==
    IF dependant.kind = DL /\ inst.batchingMode = "AUTO"
    THEN [status |-> FORBIDDEN_MODEL_DYNAMIC_PARAMETER, conns |-> conns]
    ELSE validateNodeEdges(nodes, IndexConnections(conns, dependant.nodeName),
                           dependant, inst)

\* lines 251-448 with the model instance of the dependant
validateNodeWithInstance(nodes, conns, dependant, inst) ==
    IF dependant.kind = DL /\ inst.batchingMode = "AUTO"
    THEN [status |-> FORBIDDEN_MODEL_DYNAMIC_PARAMETER, conns |-> conns]
    ELSE IF /\ dependant.kind = DL
            /\ \E name \in DOMAIN inst.shapes : inst.shapes[name] = "AUTO"
    THEN [status |-> FORBIDDEN_MODEL_DYNAMIC_PARAMETER, conns |-> conns]
    ELSE validateNodeEdges(nodes, IndexConnections(conns, dependant.nodeName),
                           dependant, inst)

\* the result is the status and the connections map as operator[] leaves it
validateNode(nodes, conns, dependant) ==
    IF /\ dependant.kind = DL
       /\ ~HasModelInstance(dependant.modelName, value_or(dependant.modelVersion, 0))
    THEN [status |-> REFERING_TO_MISSING_MODEL, conns |-> conns]
    ELSE validateNodeWithInstance(nodes, conns, dependant,
             IF dependant.kind = DL
             THEN getModelInstance(dependant.modelName,
                                   value_or(dependant.modelVersion, 0))
             ELSE NoInstance)

(***************************************************************************)
(* validateNodes, lines 518-568.                                           *)
(***************************************************************************)
RECURSIVE validateNodesLoop(_, _, _)
\* lines 561-564: return the error of node i, else go on with the next node
nextNode(nodes, i, result) ==
    IF result.status # OK THEN result ELSE validateNodesLoop(nodes, result.conns, i + 1)

validateNodesLoop(nodes, conns, i) ==
    IF i > Len(nodes) THEN [status |-> OK, conns |-> conns]
    ELSE IF CountName(nodes, nodes[i].nodeName) > 1
    THEN [status |-> NODE_NAME_DUPLICATE, conns |-> conns]
    ELSE nextNode(nodes, i, validateNode(nodes, conns, nodes[i]))

\* a validateNodes that tests for several ENTRY or EXIT nodes before it tests
\* for none
validateNodesMultipleFirst(nodes, conns) ==
    LET entryNodeCount == CountKind(nodes, ENTRY)
        exitNodeCount == CountKind(nodes, EXIT)
    IN IF entryNodeCount > 1 THEN [status |-> MULTIPLE_ENTRY_NODES, conns |-> conns]
       ELSE IF exitNodeCount > 1 THEN [status |-> MULTIPLE_EXIT_NODES, conns |-> conns]
       ELSE IF entryNodeCount <= 0 THEN [status |-> MISSING_ENTRY_OR_EXIT, conns |-> conns]
       ELSE IF exitNodeCount <= 0 THEN [status |-> MISSING_ENTRY_OR_EXIT, conns |-> conns]
       ELSE validateNodesLoop(nodes, conns, 1)

validateNodes(nodes, conns) ==
    LET entryNodeCount == CountKind(nodes, ENTRY)
        exitNodeCount == CountKind(nodes, EXIT)
    IN IF entryNodeCount <= 0 THEN [status |-> MISSING_ENTRY_OR_EXIT, conns |-> conns]
       ELSE IF exitNodeCount <= 0 THEN [status |-> MISSING_ENTRY_OR_EXIT, conns |-> conns]
       ELSE IF entryNodeCount > 1 THEN [status |-> MULTIPLE_ENTRY_NODES, conns |-> conns]
       ELSE IF exitNodeCount > 1 THEN [status |-> MULTIPLE_EXIT_NODES, conns |-> conns]
       ELSE validateNodesLoop(nodes, conns, 1)

(***************************************************************************)
(* validateForCycles, lines 453-516: the iterative depth-first search from *)
(* the EXIT node over connections[nodeName].                               *)
(***************************************************************************)
InSeq(seq, v) == \E i \in 1..Len(seq) : seq[i] = v

\* the keys of connections[nodeName]
DependenciesAt(conns, nodeName) ==
    IF nodeName \in DOMAIN conns THEN DOMAIN conns[nodeName] ELSE {}

\* the for loop over connectedToNode, lines 475-500
RECURSIVE scanConnected(_, _, _, _, _)
scanConnected(nodeName, keys, i, visited, parentNodes) ==
    IF i > Len(keys) THEN [found |-> "none", node |-> ""]
    ELSE IF nodeName = keys[i] THEN [found |-> "cycle", node |-> keys[i]]
    ELSE IF ~InSeq(visited, keys[i]) THEN [found |-> "unvisited", node |-> keys[i]]
    ELSE IF InSeq(parentNodes, keys[i]) THEN [found |-> "cycle", node |-> keys[i]]
    ELSE scanConnected(nodeName, keys, i + 1, visited, parentNodes)

\* the while loop, lines 472-514
RECURSIVE cyclesLoop(_, _, _, _, _)
\* one iteration of the while loop after its for loop, lines 476-513;
\* indexed is connections with the entry of nodeName in place
cyclesStep(nodes, indexed, nodeName, visited, parentNodes, scan) ==
    IF scan.found = "cycle" THEN [status |-> CYCLE_FOUND, conns |-> indexed]
    ELSE IF scan.found = "unvisited"
    THEN cyclesLoop(nodes, indexed, scan.node, Append(visited, scan.node),
                    Append(parentNodes, nodeName))
    ELSE IF Len(parentNodes) = 0
    THEN IF Len(visited) # Len(nodes)
         THEN [status |-> CONTAINS_UNCONNECTED_NODES, conns |-> indexed]
         ELSE [status |-> OK, conns |-> indexed]
    ELSE cyclesLoop(nodes, indexed, parentNodes[Len(parentNodes)], visited,
                    SubSeq(parentNodes, 1, Len(parentNodes) - 1))

cyclesLoop(nodes, conns, nodeName, visited, parentNodes) ==
    cyclesStep(nodes, IndexConnections(conns, nodeName), nodeName, visited, parentNodes,
               scanConnected(nodeName, SortedKeys(DependenciesAt(conns, nodeName)), 1,
                             visited, parentNodes))

\* std::find_if(nodeInfos.begin(), nodeInfos.end(), pred): the first EXIT, 0 for end()
FindExitIndex(nodes) ==
    IF \A i \in 1..Len(nodes) : nodes[i].kind # EXIT THEN 0
    ELSE CHOOSE i \in 1..Len(nodes) :
            /\ nodes[i].kind = EXIT
            /\ \A j \in 1..(i - 1) : nodes[j].kind # EXIT

cyclesFrom(nodes, conns, nodeName) == cyclesLoop(nodes, conns, nodeName, <<nodeName>>, <<>>)

validateForCycles(nodes, conns) ==
    IF FindExitIndex(nodes) = 0 THEN [status |-> MISSING_ENTRY_OR_EXIT, conns |-> conns]
    ELSE cyclesFrom(nodes, conns, nodes[FindExitIndex(nodes)].nodeName)

(***************************************************************************)
(* validate, lines 36-60.                                                  *)
(***************************************************************************)
\* lines 50-59 with the result of validateNodes
validateAfterNodes(nodes, validationResult) ==
    IF validationResult.status # OK THEN validationResult
    ELSE validateForCycles(nodes, validationResult.conns)

validate(nodes, conns) == validateAfterNodes(nodes, validateNodes(nodes, conns))

(***************************************************************************)
(* Subscriptions, lines 175-224.  subscriptions is the definition's set of *)
(* <<modelName, versionOrZero>>; registrySubs counts, per target in the    *)
(* registry, the subscribe calls not yet matched by an unsubscribe.        *)
(***************************************************************************)
ModelTarget(name) == <<"model", name, 0>>
InstanceTarget(name, version) == <<"instance", name, version>>

Targets ==
    {ModelTarget(name) : name \in DOMAIN Registry} \cup
    UNION {{InstanceTarget(name, v) : v \in DOMAIN Registry[name].instances} :
           name \in DOMAIN Registry}

NoRegistrySubs == [t \in Targets |-> 0]

subscribe(regSubs, target) == [regSubs EXCEPT ![target] = @ + 1]

unsubscribe(regSubs, target) == [regSubs EXCEPT ![target] = IF @ > 0 THEN @ - 1 ELSE 0]

\* a resetSubscriptions that unsubscribes from the model whatever the version
UnsubscribeTargetModelOnly(sub) == ModelTarget(sub[1])

\* the target resetSubscriptions unsubscribes for one element of subscriptions
UnsubscribeTarget(sub) ==
    IF sub[2] # 0 THEN InstanceTarget(sub[1], sub[2]) ELSE ModelTarget(sub[1])

RECURSIVE resetSubscriptionsLoop(_, _)
resetSubscriptionsLoop(subs, regSubs) ==
    IF subs = {} THEN regSubs
    ELSE LET sub == CHOOSE s \in subs : TRUE
         IN resetSubscriptionsLoop(subs \ {sub}, unsubscribe(regSubs, UnsubscribeTarget(sub)))

\* the result is the cleared set and the registry's side
resetSubscriptions(subs, regSubs) ==
    [subscriptions |-> {}, registrySubs |-> resetSubscriptionsLoop(subs, regSubs)]

\* a makeSubscriptions that does not look its key up in subscriptions first
RECURSIVE makeSubscriptionsLoopNoFind(_, _, _, _)
makeSubscriptionsLoopNoFind(nodes, i, subs, regSubs) ==
    IF i > Len(nodes) THEN [subscriptions |-> subs, registrySubs |-> regSubs]
    ELSE LET node == nodes[i]
             key == <<node.modelName, value_or(node.modelVersion, 0)>>
         IN IF node.kind # DL THEN makeSubscriptionsLoopNoFind(nodes, i + 1, subs, regSubs)
            ELSE IF ~findModelByName(node.modelName)
            THEN makeSubscriptionsLoopNoFind(nodes, i + 1, subs, regSubs)
            ELSE IF node.modelVersion # NoVersion
            THEN IF ~getModelInstanceByVersion(node.modelName, node.modelVersion[1])
                 THEN makeSubscriptionsLoopNoFind(nodes, i + 1, subs, regSubs)
                 ELSE makeSubscriptionsLoopNoFind(nodes, i + 1, subs \cup {key},
                          subscribe(regSubs,
                                    InstanceTarget(node.modelName, node.modelVersion[1])))
            ELSE makeSubscriptionsLoopNoFind(nodes, i + 1, subs \cup {key},
                     subscribe(regSubs, ModelTarget(node.modelName)))

RECURSIVE makeSubscriptionsLoop(_, _, _, _)
makeSubscriptionsLoop(nodes, i, subs, regSubs) ==
    IF i > Len(nodes) THEN [subscriptions |-> subs, registrySubs |-> regSubs]
    ELSE LET node == nodes[i]
             key == <<node.modelName, value_or(node.modelVersion, 0)>>
         IN IF node.kind # DL THEN makeSubscriptionsLoop(nodes, i + 1, subs, regSubs)
            ELSE IF key \in subs THEN makeSubscriptionsLoop(nodes, i + 1, subs, regSubs)
            ELSE IF ~findModelByName(node.modelName)
            THEN makeSubscriptionsLoop(nodes, i + 1, subs, regSubs)
            ELSE IF node.modelVersion # NoVersion
            THEN IF ~getModelInstanceByVersion(node.modelName, node.modelVersion[1])
                 THEN makeSubscriptionsLoop(nodes, i + 1, subs, regSubs)
                 ELSE makeSubscriptionsLoop(nodes, i + 1, subs \cup {key},
                          subscribe(regSubs,
                                    InstanceTarget(node.modelName, node.modelVersion[1])))
            ELSE makeSubscriptionsLoop(nodes, i + 1, subs \cup {key},
                     subscribe(regSubs, ModelTarget(node.modelName)))

makeSubscriptions(nodes, subs, regSubs) == makeSubscriptionsLoop(nodes, 1, subs, regSubs)

(***************************************************************************)
(* Node and connection records the configuration loader hands to reload.   *)
(***************************************************************************)
NodeE == EntryInfo("e", [a |-> "a"])
NodeX == ExitInfo("x")
NodeM == DLInfo("m", "M", NoVersion, [o |-> "o"])
NodeN == DLInfo("n", "M", <<1>>, [o |-> "o"])
NodeB == DLInfo("m", "A", NoVersion, [o |-> "o"])

NodeS == DLInfo("n", "S", NoVersion, [o |-> "o"])

NodePool == {NodeE, NodeX, NodeM, NodeN, NodeB, NodeS}

Edge(dependant, dependency, mapping) ==
    [dependant |-> dependant, dependency |-> dependency, mapping |-> mapping]

EdgePool ==
    {Edge("x", "e", <<<<"a", "out">>>>),
     Edge("x", "m", <<<<"o", "out">>>>),
     Edge("x", "n", <<<<"o", "out">>>>),
     Edge("m", "e", <<<<"a", "i">>>>),
     Edge("n", "e", <<<<"a", "i">>>>),
     Edge("n", "m", <<<<"o", "i">>>>),
     Edge("m", "n", <<<<"o", "i">>>>),
     Edge("m", "m", <<<<"o", "i">>>>),
     Edge("e", "g", <<>>),
     Edge("e", "x", <<>>),
     Edge("g", "e", <<<<"z", "i">>>>),
     Edge("g", "x", <<>>)}

\* connections[dependant][dependency] = mapping on a map that lacks the edge
InsertEdge(conns, edge) ==
    LET indexed == IndexConnections(conns, edge.dependant)
        inner == indexed[edge.dependant]
    IN [indexed EXCEPT ![edge.dependant] =
            [k \in DOMAIN inner \cup {edge.dependency} |->
                IF k = edge.dependency THEN edge.mapping ELSE inner[k]]]

HasEdge(conns, dependant, dependency) ==
    dependant \in DOMAIN conns /\ dependency \in DOMAIN conns[dependant]

EdgesOf(conns) ==
    {<<d, y>> \in (DOMAIN conns) \X {NameOrder[i] : i \in 1..Len(NameOrder)} :
        y \in DOMAIN conns[d]}

Definition(nodes, conns) == [nodes |-> nodes, conns |-> conns]

PassThrough ==
    Definition(<<NodeE, NodeX>>, InsertEdge(NoConnections, Edge("x", "e", <<<<"a", "out">>>>)))

SingleDL ==
    Definition(<<NodeE, NodeM, NodeX>>,
               InsertEdge(InsertEdge(NoConnections, Edge("m", "e", <<<<"a", "i">>>>)),
                          Edge("x", "m", <<<<"o", "out">>>>)))

MissingInput ==
    Definition(<<NodeE, NodeM, NodeX>>,
               InsertEdge(NoConnections, Edge("x", "m", <<<<"o", "out">>>>)))

DefPool == {PassThrough, MissingInput}

(***************************************************************************)
(* State.  The fields of one PipelineDefinition, the registry's side of    *)
(* its subscriptions, and the position and locals of every thread.         *)
(***************************************************************************)
VARIABLES
    nodeInfos,               \* this->nodeInfos
    connections,             \* this->connections
    subscriptions,           \* this->subscriptions
    requestsHandlesCounter,  \* this->requestsHandlesCounter
    registrySubs,            \* subscribers of this definition held by the registry
    aborted,                 \* the process was terminated
    rpc,                     \* request thread -> position in create
    unloadGuard,             \* request thread -> create's local unloadGuard is set
    status,                  \* request thread -> create's local status
    built,                   \* request thread -> the NodeInfos create made its nodes from
    wpc,                     \* control thread -> position in reload or retire
    args,                    \* control thread -> the arguments of its reload
    lastOp,                  \* what the control operation that returned last returned
    idleAtAcquire,           \* request thread -> every control thread was idle when it
                             \* took its guard
    cfgNodes,                \* node records being assembled for the next reload
    cfgConns,                \* connection records being assembled for the next reload
    vpc,                     \* position of the loading thread of SpecV
    vstatus,                 \* the status its reload returned
    inputsInfo,              \* the tensor_map_t getInputsInfo was given to fill
    infoStatus,              \* the status getInputsInfo returned
    cycNodeName,             \* validateForCycles' local nodeName
    cycVisited,              \* validateForCycles' local visited
    cycParentNodes           \* validateForCycles' local parentNodes

vars ==
    <<nodeInfos, connections, subscriptions, requestsHandlesCounter, registrySubs, aborted,
      rpc, unloadGuard, status, built, wpc, args, lastOp, idleAtAcquire,
      cfgNodes, cfgConns, vpc, vstatus, inputsInfo, infoStatus,
      cycNodeName, cycVisited, cycParentNodes>>

defVars == <<nodeInfos, connections, subscriptions, registrySubs>>
readerVars == <<rpc, unloadGuard, status, built, idleAtAcquire>>
writerVars == <<wpc, args, lastOp>>
infoVars == <<inputsInfo, infoStatus>>
cycleVars == <<cycNodeName, cycVisited, cycParentNodes>>
loaderVars == <<cfgNodes, cfgConns, vpc, vstatus, infoVars, cycleVars>>

Readers == 1..NumReaders
Writers == 1..NumWriters

NoDefinition == Definition(<<>>, NoConnections)

Init ==
    /\ nodeInfos = <<>>
    /\ connections = NoConnections
    /\ subscriptions = {}
    /\ requestsHandlesCounter = 0
    /\ registrySubs = NoRegistrySubs
    /\ aborted = FALSE
    /\ rpc = [r \in Readers |-> "idle"]
    /\ unloadGuard = [r \in Readers |-> FALSE]
    /\ status = [r \in Readers |-> ""]
    /\ built = [r \in Readers |-> <<>>]
    /\ wpc = [w \in Writers |-> "idle"]
    /\ args = [w \in Writers |-> NoDefinition]
    /\ lastOp = "none"
    /\ idleAtAcquire = [r \in Readers |-> FALSE]
    /\ cfgNodes = <<>>
    /\ cfgConns = NoConnections
    /\ vpc = "build"
    /\ vstatus = ""
    /\ inputsInfo = <<>>
    /\ infoStatus = ""
    /\ cycNodeName = ""
    /\ cycVisited = <<>>
    /\ cycParentNodes = <<>>

(***************************************************************************)
(* PipelineDefinitionUnloadGuard: its constructor increments the counter   *)
(* of the definition, its destructor decrements it.                        *)
(***************************************************************************)
increaseRequestsHandlesCount(counter) == counter + 1

decreaseRequestsHandlesCount(counter) == counter - 1

\* waitForLoaded, lines 86-118: makes the guard and returns OK
waitForLoaded == [guard |-> TRUE, status |-> OK]

\* a drain loop that lets the last guard through
DrainBlockedOffByOne(counter) == counter > 1

\* the condition of the drain loops, lines 65 and 79
DrainBlocked(counter) == counter > 0

(***************************************************************************)
(* create, lines 120-173, one action per statement that touches the        *)
(* definition.  The caller's handler runs the pipeline after create has    *)
(* returned.                                                               *)
(***************************************************************************)
CreateWaitForLoaded(r) ==
    /\ ~aborted
    /\ rpc[r] = "idle"
    /\ LET w == waitForLoaded
       IN /\ status' = [status EXCEPT ![r] = w.status]
          /\ IF w.status = OK
             THEN /\ unloadGuard' = [unloadGuard EXCEPT ![r] = w.guard]
                  /\ requestsHandlesCounter' =
                        IF w.guard THEN increaseRequestsHandlesCount(requestsHandlesCounter)
                        ELSE requestsHandlesCounter
                  /\ rpc' = [rpc EXCEPT ![r] = "create_nodes"]
             ELSE /\ UNCHANGED <<unloadGuard, requestsHandlesCounter, rpc>>
    /\ built' = [built EXCEPT ![r] = <<>>]
    /\ idleAtAcquire' = [idleAtAcquire EXCEPT ![r] = \A c \in Writers : wpc[c] = "idle"]
    /\ UNCHANGED <<defVars, aborted, writerVars, loaderVars>>

\* the loop over nodeInfos, lines 133-159
CreateNodes(r) ==
    /\ ~aborted
    /\ rpc[r] = "create_nodes"
    /\ built' = [built EXCEPT ![r] = nodeInfos]
    /\ rpc' = [rpc EXCEPT ![r] = "create_connect"]
    /\ UNCHANGED <<defVars, requestsHandlesCounter, aborted, unloadGuard, status,
                   idleAtAcquire, writerVars, loaderVars>>

\* nodes.at(name) finds a node for every key of connections
CanWire(nodes, conns) ==
    \A d \in DOMAIN conns :
        /\ d \in NodeNames(nodes)
        /\ \A y \in DOMAIN conns[d] : y \in NodeNames(nodes)

\* the loop over connections, lines 160-167; nodes.at throws std::out_of_range
\* and the unwinding destroys unloadGuard
CreateConnect(r) ==
    /\ ~aborted
    /\ rpc[r] = "create_connect"
    /\ IF CanWire(built[r], connections)
       THEN /\ rpc' = [rpc EXCEPT ![r] = "create_pipeline"]
            /\ UNCHANGED <<requestsHandlesCounter, unloadGuard, status, built,
                           idleAtAcquire>>
       ELSE /\ built' = [built EXCEPT ![r] = <<>>]
            /\ rpc' = [rpc EXCEPT ![r] = "idle"]
            /\ status' = [status EXCEPT ![r] = ""]
            /\ unloadGuard' = [unloadGuard EXCEPT ![r] = FALSE]
            /\ requestsHandlesCounter' = decreaseRequestsHandlesCount(requestsHandlesCounter)
            /\ idleAtAcquire' = [idleAtAcquire EXCEPT ![r] = FALSE]
    /\ UNCHANGED <<defVars, aborted, writerVars, loaderVars>>

HasEndpoints(nodes) == CountKind(nodes, ENTRY) > 0 /\ CountKind(nodes, EXIT) > 0

\* lines 168-173: *entry and *exit are dereferenced (undefined when one is
\* nullptr: the call goes on or the process dies), then create returns status
\* and its locals, unloadGuard among them, are destroyed
CreateReturn(r) ==
    /\ ~aborted
    /\ rpc[r] = "create_pipeline"
    /\ \/ /\ rpc' = [rpc EXCEPT ![r] = "handler"]
          /\ unloadGuard' = [unloadGuard EXCEPT ![r] = FALSE]
          /\ requestsHandlesCounter' = decreaseRequestsHandlesCount(requestsHandlesCounter)
          /\ built' = [built EXCEPT ![r] = <<>>]
          /\ idleAtAcquire' = [idleAtAcquire EXCEPT ![r] = FALSE]
          /\ UNCHANGED aborted
       \/ /\ ~HasEndpoints(built[r])
          /\ aborted' = TRUE
          /\ UNCHANGED <<rpc, unloadGuard, requestsHandlesCounter, built, idleAtAcquire>>
    /\ UNCHANGED <<defVars, status, writerVars, loaderVars>>

\* the handler that called create is done with the pipeline
HandlerDone(r) ==
    /\ ~aborted
    /\ rpc[r] = "handler"
    /\ rpc' = [rpc EXCEPT ![r] = "idle"]
    /\ status' = [status EXCEPT ![r] = ""]
    /\ UNCHANGED <<defVars, requestsHandlesCounter, aborted, unloadGuard, built,
                   idleAtAcquire, writerVars, loaderVars>>

(***************************************************************************)
(* reload, lines 62-74, and retire, lines 76-84.                           *)
(***************************************************************************)
\* the call and line 63
ReloadBegin(w, def) ==
    /\ ~aborted
    /\ wpc[w] = "idle"
    /\ \E r \in {resetSubscriptions(subscriptions, registrySubs)} :
          /\ subscriptions' = r.subscriptions
          /\ registrySubs' = r.registrySubs
    /\ wpc' = [wpc EXCEPT ![w] = "reload_drain"]
    /\ args' = [args EXCEPT ![w] = def]
    /\ UNCHANGED <<nodeInfos, connections, requestsHandlesCounter, aborted, readerVars,
                   lastOp, loaderVars>>

\* the call and line 77
RetireBegin(w) ==
    /\ ~aborted
    /\ wpc[w] = "idle"
    /\ \E r \in {resetSubscriptions(subscriptions, registrySubs)} :
          /\ subscriptions' = r.subscriptions
          /\ registrySubs' = r.registrySubs
    /\ wpc' = [wpc EXCEPT ![w] = "retire_drain"]
    /\ UNCHANGED <<nodeInfos, connections, requestsHandlesCounter, aborted, readerVars,
                   args, lastOp, loaderVars>>

\* lines 65-67 and 79-81: the loop is left when its condition is false
Drain(w) ==
    /\ ~aborted
    /\ wpc[w] \in {"reload_drain", "retire_drain"}
    /\ ~DrainBlocked(requestsHandlesCounter)
    /\ wpc' = [wpc EXCEPT ![w] = IF wpc[w] = "reload_drain" THEN "reload_nodes"
                                 ELSE "retire_nodes"]
    /\ UNCHANGED <<defVars, requestsHandlesCounter, aborted, readerVars, args, lastOp,
                   loaderVars>>

\* line 69
ReloadAssignNodes(w) ==
    /\ ~aborted
    /\ wpc[w] = "reload_nodes"
    /\ nodeInfos' = args[w].nodes
    /\ wpc' = [wpc EXCEPT ![w] = "reload_conns"]
    /\ UNCHANGED <<connections, subscriptions, registrySubs, requestsHandlesCounter, aborted,
                   readerVars, args, lastOp, loaderVars>>

\* line 70
ReloadAssignConnections(w) ==
    /\ ~aborted
    /\ wpc[w] = "reload_conns"
    /\ connections' = args[w].conns
    /\ wpc' = [wpc EXCEPT ![w] = "reload_subs"]
    /\ args' = [args EXCEPT ![w] = NoDefinition]
    /\ UNCHANGED <<nodeInfos, subscriptions, registrySubs, requestsHandlesCounter, aborted,
                   readerVars, lastOp, loaderVars>>

\* line 71
ReloadMakeSubscriptions(w) ==
    /\ ~aborted
    /\ wpc[w] = "reload_subs"
    /\ \E r \in {makeSubscriptions(nodeInfos, subscriptions, registrySubs)} :
          /\ subscriptions' = r.subscriptions
          /\ registrySubs' = r.registrySubs
    /\ wpc' = [wpc EXCEPT ![w] = "reload_validate"]
    /\ UNCHANGED <<nodeInfos, connections, requestsHandlesCounter, aborted, readerVars,
                   args, lastOp, loaderVars>>

\* line 73: reload returns what validate returns
ReloadValidate(w) ==
    /\ ~aborted
    /\ wpc[w] = "reload_validate"
    /\ \E r \in {validate(nodeInfos, connections)} :
          /\ connections' = r.conns
          /\ lastOp' = r.status
    /\ wpc' = [wpc EXCEPT ![w] = "idle"]
    /\ UNCHANGED <<nodeInfos, subscriptions, registrySubs, requestsHandlesCounter, aborted,
                   readerVars, args, loaderVars>>

\* line 82
RetireClearNodes(w) ==
    /\ ~aborted
    /\ wpc[w] = "retire_nodes"
    /\ nodeInfos' = <<>>
    /\ wpc' = [wpc EXCEPT ![w] = "retire_conns"]
    /\ UNCHANGED <<connections, subscriptions, registrySubs, requestsHandlesCounter, aborted,
                   readerVars, args, lastOp, loaderVars>>

\* lines 83-84
RetireClearConnections(w) ==
    /\ ~aborted
    /\ wpc[w] = "retire_conns"
    /\ connections' = NoConnections
    /\ wpc' = [wpc EXCEPT ![w] = "idle"]
    /\ lastOp' = "retire"
    /\ UNCHANGED <<nodeInfos, subscriptions, registrySubs, requestsHandlesCounter, aborted,
                   readerVars, args, loaderVars>>

Next ==
    \/ \E r \in Readers : CreateWaitForLoaded(r)
    \/ \E r \in Readers : CreateNodes(r)
    \/ \E r \in Readers : CreateConnect(r)
    \/ \E r \in Readers : CreateReturn(r)
    \/ \E r \in Readers : HandlerDone(r)
    \/ \E w \in Writers, def \in DefPool : ReloadBegin(w, def)
    \/ \E w \in Writers : RetireBegin(w)
    \/ \E w \in Writers : Drain(w)
    \/ \E w \in Writers : ReloadAssignNodes(w)
    \/ \E w \in Writers : ReloadAssignConnections(w)
    \/ \E w \in Writers : ReloadMakeSubscriptions(w)
    \/ \E w \in Writers : ReloadValidate(w)
    \/ \E w \in Writers : RetireClearNodes(w)
    \/ \E w \in Writers : RetireClearConnections(w)

Spec == Init /\ [][Next]_vars

(***************************************************************************)
(* The lifecycle of the definition (BEGIN, LOADING, AVAILABLE, RETIRED).   *)
(* The definition stores no state: the status.notify... calls at lines 41, *)
(* 43, 64 and 78 are comments.  state is the lifecycle read off the        *)
(* control operations: what is in progress, else what returned last.       *)
(***************************************************************************)
BEGIN == "BEGIN"
LOADING == "LOADING"
AVAILABLE == "AVAILABLE"
RETIRED == "RETIRED"

ReloadPcs == {"reload_drain", "reload_nodes", "reload_conns", "reload_subs", "reload_validate"}
RetirePcs == {"retire_drain", "retire_nodes", "retire_conns"}
DrainPcs == {"reload_drain", "retire_drain"}
MutatingPcs == {"reload_nodes", "reload_conns", "retire_nodes", "retire_conns"}
CreatePcs == {"create_nodes", "create_connect", "create_pipeline"}

AllWritersIdle == \A w \in Writers : wpc[w] = "idle"

state ==
    IF \E w \in Writers : wpc[w] \in RetirePcs THEN RETIRED
    ELSE IF \E w \in Writers : wpc[w] \in ReloadPcs THEN LOADING
    ELSE IF lastOp = "none" THEN BEGIN
    ELSE IF lastOp = "retire" THEN RETIRED
    ELSE IF lastOp = OK THEN AVAILABLE
    ELSE LOADING

\* request thread r takes a guard in this step
AcquiresGuard(r) == ~unloadGuard[r] /\ unloadGuard'[r]

\* the waitForLoaded call of request thread r returns in this step
WaitForLoadedReturns(r) == rpc[r] = "idle" /\ status'[r] # ""

(***************************************************************************)
(* Properties of the reload / retire / create protocol (Spec).             *)
(***************************************************************************)

\* C1: the statements that replace or clear nodeInfos and connections run
\* only while the usage counter is 0, no request thread holds a guard and
\* the state is not AVAILABLE.
C1_RecordsMutatedOnlyWhenDrained ==
    \A w \in Writers :
        wpc[w] \in MutatingPcs =>
            /\ requestsHandlesCounter = 0
            /\ \A r \in Readers : ~unloadGuard[r]
            /\ state # AVAILABLE

C3_GuardOnlyWhenAvailable ==
    [][\A r \in Readers : AcquiresGuard(r) => state = AVAILABLE]_vars

\* C4: a guard request that arrives while a reload or retire is in its drain
\* loop or is mutating the records is rejected.
C4_AcquirersRejectedWhileDraining ==
    [][\A r \in Readers :
            (WaitForLoadedReturns(r) /\ \E w \in Writers : wpc[w] \in DrainPcs \cup MutatingPcs)
                => (~unloadGuard'[r] /\ requestsHandlesCounter' = requestsHandlesCounter)]_vars

\* C5: after a reload has returned a status other than OK, a create obtains
\* neither a guard nor a pipeline until a later reload succeeds.
C5_FailedReloadLeavesDefinitionUnavailable ==
    [][\A r \in Readers :
            (AllWritersIdle /\ lastOp \notin {"none", "retire", OK}) =>
                (~AcquiresGuard(r) /\ ~(rpc[r] = "idle" /\ rpc'[r] # "idle"))]_vars

\* C6: when retire completes, nodeInfos, connections and subscriptions are
\* empty, and every later waitForLoaded returns
\* MODEL_VERSION_NOT_LOADED_ANYMORE without a guard, so that create makes no
\* pipeline.
C6_RetiredDefinitionServesNothing ==
    [][/\ (\E w \in Writers : wpc[w] = "retire_conns" /\ wpc'[w] = "idle") =>
            (nodeInfos' = <<>> /\ connections' = NoConnections /\ subscriptions' = {})
       /\ \A r \in Readers :
            (WaitForLoadedReturns(r) /\ AllWritersIdle /\ lastOp = "retire") =>
                /\ status'[r] = MODEL_VERSION_NOT_LOADED_ANYMORE
                /\ ~unloadGuard'[r]
                /\ rpc'[r] = "idle"]_vars

\* C7: a waitForLoaded on a definition that is in BEGIN or LOADING for the
\* whole call returns MODEL_VERSION_NOT_LOADED_YET, holds no guard and leaves
\* the usage counter as it was.
C7_TimeoutReturnsNotLoadedYet ==
    [][\A r \in Readers :
            (WaitForLoadedReturns(r) /\ state \in {BEGIN, LOADING}) =>
                /\ status'[r] = MODEL_VERSION_NOT_LOADED_YET
                /\ ~unloadGuard'[r]
                /\ requestsHandlesCounter' = requestsHandlesCounter]_vars

\* the connections as reload was given them: validate's operator[] adds
\* keys with no edges
Edges(conns) == {<<d, y, conns[d][y]>> : <<d, y>> \in EdgesOf(conns)}

\* C8: at most one reload or retire is between its teardown of subscriptions
\* and its return, and when none is running the records are those of one
\* reload (or of none).
C8_ControlOperationsSerialized ==
    /\ Cardinality({w \in Writers : wpc[w] # "idle"}) <= 1
    /\ AllWritersIdle =>
          \/ nodeInfos = <<>> /\ Edges(connections) = {}
          \/ \E def \in DefPool :
                nodeInfos = def.nodes /\ Edges(connections) = Edges(def.conns)

\* C9: after create has returned a pipeline, the usage counter still counts
\* the request until its handler is done.
C9_GuardHeldWhilePipelineInUse ==
    requestsHandlesCounter >=
        Cardinality({r \in Readers : rpc[r] \in CreatePcs \cup {"handler"}})

(***************************************************************************)
(* SpecV: the configuration loader assembles node and connection records   *)
(* and calls reload once, with no other thread on the definition.          *)
(***************************************************************************)
EdgeCount(conns) == Cardinality(EdgesOf(conns))

AddNode(info) ==
    /\ vpc = "build"
    /\ Len(cfgNodes) < MaxNodes
    /\ cfgNodes' = Append(cfgNodes, info)
    /\ UNCHANGED <<cycleVars, infoVars, defVars, requestsHandlesCounter, aborted, readerVars, writerVars,
                   cfgConns, vpc, vstatus>>

AddEdge(edge) ==
    /\ vpc = "build"
    /\ EdgeCount(cfgConns) < MaxEdges
    /\ ~HasEdge(cfgConns, edge.dependant, edge.dependency)
    /\ cfgConns' = InsertEdge(cfgConns, edge)
    /\ UNCHANGED <<cycleVars, infoVars, defVars, requestsHandlesCounter, aborted, readerVars, writerVars,
                   cfgNodes, vpc, vstatus>>

\* reload, lines 62-74, run from call to return
reloadResult(def, made, result) ==
    [nodeInfos |-> def.nodes, connections |-> result.conns,
     subscriptions |-> made.subscriptions, registrySubs |-> made.registrySubs,
     status |-> result.status]

reload(def, subs, regSubs) ==
    reloadResult(def,
                 makeSubscriptions(def.nodes, {}, resetSubscriptionsLoop(subs, regSubs)),
                 validate(def.nodes, def.conns))

LoadDefinition ==
    /\ vpc = "build"
    /\ ~DrainBlocked(requestsHandlesCounter)
    /\ \E r \in {reload(Definition(cfgNodes, cfgConns), subscriptions, registrySubs)} :
          /\ nodeInfos' = r.nodeInfos
          /\ connections' = r.connections
          /\ subscriptions' = r.subscriptions
          /\ registrySubs' = r.registrySubs
          /\ vstatus' = r.status
    /\ vpc' = "loaded"
    /\ UNCHANGED <<cycleVars, infoVars, requestsHandlesCounter, aborted, readerVars, writerVars, cfgNodes,
                   cfgConns>>

NextV ==
    \/ \E info \in NodePool : AddNode(info)
    \/ \E edge \in EdgePool : AddEdge(edge)
    \/ LoadDefinition

SpecV == Init /\ [][NextV]_vars

(***************************************************************************)
(* Graph notions the properties are stated with.                           *)
(***************************************************************************)
\* the names reachable from the names in reached along dependency edges
RECURSIVE ReachableFrom(_, _)
ReachableFrom(conns, reached) ==
    LET more == reached \cup UNION {DependenciesAt(conns, n) : n \in reached}
    IN IF more = reached THEN reached ELSE ReachableFrom(conns, more)

ExitNames(nodes) == {nodes[i].nodeName : i \in {j \in 1..Len(nodes) : nodes[j].kind = EXIT}}

Accepted == vpc = "loaded" /\ vstatus = OK

\* C10: every declared node of a definition that validate accepted is
\* reachable from the EXIT node along dependency edges (a definition with an
\* unreachable declared node is rejected).
C10_AcceptedNodesReachableFromExit ==
    Accepted => NodeNames(nodeInfos) \subseteq ReachableFrom(connections, ExitNames(nodeInfos))

\* name is reachable from itself along one or more dependency edges
OnCycle(conns, name) == name \in ReachableFrom(conns, DependenciesAt(conns, name))

\* C11: the dependency graph of a definition that validate accepted has no
\* cycle: no declared node is reachable from itself along one or more
\* dependency edges, self-loops included.
C11_AcceptedGraphAcyclic ==
    Accepted => \A name \in NodeNames(nodeInfos) : ~OnCycle(connections, name)

\* reload has returned (whatever its status)
Loaded == vpc = "loaded"

\* C12: validate returns MISSING_ENTRY_OR_EXIT when there is no ENTRY or no
\* EXIT node, otherwise MULTIPLE_ENTRY_NODES when there are several ENTRY
\* nodes, otherwise MULTIPLE_EXIT_NODES when there are several EXIT nodes; an
\* accepted definition has exactly one of each.
C12_EntryExitCounts ==
    Loaded =>
        /\ (CountKind(nodeInfos, ENTRY) = 0 \/ CountKind(nodeInfos, EXIT) = 0)
              => vstatus = MISSING_ENTRY_OR_EXIT
        /\ (CountKind(nodeInfos, ENTRY) > 1 /\ CountKind(nodeInfos, EXIT) >= 1)
              => vstatus = MULTIPLE_ENTRY_NODES
        /\ (CountKind(nodeInfos, ENTRY) = 1 /\ CountKind(nodeInfos, EXIT) > 1)
              => vstatus = MULTIPLE_EXIT_NODES
        /\ vstatus = OK
              => (CountKind(nodeInfos, ENTRY) = 1 /\ CountKind(nodeInfos, EXIT) = 1)

\* a definition with one ENTRY and two EXIT nodes was rejected for its EXITs
C12_Witness ==
    /\ Loaded
    /\ CountKind(nodeInfos, ENTRY) = 1
    /\ CountKind(nodeInfos, EXIT) = 2
    /\ vstatus = MULTIPLE_EXIT_NODES

\* the declared node with the given name
NodeNamed(nodes, name) == nodes[FindNodeIndex(nodes, name)]

\* the model instance a DL node refers to
InstanceOf(node) == getModelInstance(node.modelName, value_or(node.modelVersion, 0))

DLNodes(nodes) == {nodes[i] : i \in {j \in 1..Len(nodes) : nodes[j].kind = DL}}

(***************************************************************************)
(* getInputsInfo, lines 570-625, called on an accepted definition.  The    *)
(* models in missing are absent from the registry at the time of the call. *)
(* Both find_if results are dereferenced unchecked: for a name that is not *)
(* a declared node the read of ->kind is undefined.                        *)
(***************************************************************************)
MODEL_MISSING == "MODEL_MISSING"
UNDEFINED == "undefined behaviour"
OUT_OF_RANGE == "std::out_of_range"

\* TensorInfo::getUnspecifiedTensorInfo()
Unspecified == [shape |-> <<>>, precision |-> "UNSPECIFIED"]

\* manager.findModelInstance(modelName, version) finds an instance
findModelInstance(missing, name, version) ==
    name \notin missing /\ HasModelInstance(name, version)

\* the (dependant, dependency) pairs in the order of the two nested loops
EdgeSeq(conns) ==
    LET names == SortedKeys({NameOrder[i] : i \in 1..Len(NameOrder)})
        n == Len(names)
        all == [k \in 1..(n * n) |-> <<names[((k - 1) \div n) + 1], names[((k - 1) % n) + 1]>>]
    IN SelectSeq(all, LAMBDA e : HasEdge(conns, e[1], e[2]))

\* inputsInfo.insert({alias, unspecified}) for every pair: an existing key stays
RECURSIVE insertUnspecified(_, _, _)
insertUnspecified(info, mapping, i) ==
    IF i > Len(mapping) THEN info
    ELSE insertUnspecified(
             [k \in DOMAIN info \cup {mapping[i][1]} |->
                 IF k \in DOMAIN info THEN info[k] ELSE Unspecified],
             mapping, i + 1)

\* inputsInfo[alias] = instance->getInputsInfo().at(realName) for every pair
RECURSIVE assignInputs(_, _, _, _)
assignInputs(info, inst, mapping, i) ==
    IF i > Len(mapping) THEN [status |-> OK, info |-> info]
    ELSE IF mapping[i][2] \notin DOMAIN inst.inputs
    THEN [status |-> OUT_OF_RANGE, info |-> info]
    ELSE assignInputs(
             [k \in DOMAIN info \cup {mapping[i][1]} |->
                 IF k = mapping[i][1] THEN inst.inputs[mapping[i][2]] ELSE info[k]],
             inst, mapping, i + 1)

\* the body of the inner loop, lines 583-620
inputsInfoOfEdge(nodes, missing, dependantName, dependencyName, mapping, info) ==
    IF dependencyName \notin NodeNames(nodes) THEN [status |-> UNDEFINED, info |-> info]
    ELSE IF NodeNamed(nodes, dependencyName).kind # ENTRY THEN [status |-> OK, info |-> info]
    ELSE IF dependantName \notin NodeNames(nodes) THEN [status |-> UNDEFINED, info |-> info]
    ELSE IF NodeNamed(nodes, dependantName).kind = EXIT
    THEN [status |-> OK, info |-> insertUnspecified(info, mapping, 1)]
    ELSE IF NodeNamed(nodes, dependantName).kind = DL
    THEN IF ~findModelInstance(missing, NodeNamed(nodes, dependantName).modelName,
                               value_or(NodeNamed(nodes, dependantName).modelVersion, 0))
         THEN [status |-> MODEL_MISSING, info |-> info]
         ELSE assignInputs(info, InstanceOf(NodeNamed(nodes, dependantName)), mapping, 1)
    ELSE [status |-> UNKNOWN_ERROR, info |-> info]

RECURSIVE getInputsInfoLoop(_, _, _, _, _, _)
\* after edge i: return what stopped the loops, else go on with the next edge
nextInputsInfoEdge(nodes, conns, missing, edges, i, r) ==
    IF r.status # OK THEN r
    ELSE getInputsInfoLoop(nodes, conns, missing, edges, i + 1, r.info)

getInputsInfoLoop(nodes, conns, missing, edges, i, info) ==
    IF i > Len(edges) THEN [status |-> OK, info |-> info]
    ELSE nextInputsInfoEdge(nodes, conns, missing, edges, i,
             inputsInfoOfEdge(nodes, missing, edges[i][1], edges[i][2],
                              conns[edges[i][1]][edges[i][2]], info))

getInputsInfo(nodes, conns, missing) ==
    getInputsInfoLoop(nodes, conns, missing, EdgeSeq(conns), 1, <<>>)

MissingPool == SUBSET {"M", "W"}

\* the call; a dereference of end() ends the process or yields some kind, so
\* that the call returns some status with the map as filled so far
GetInputsInfo(missing) ==
    /\ vpc = "loaded"
    /\ vstatus = OK
    /\ \E r \in {getInputsInfo(nodeInfos, connections, missing)} :
          /\ inputsInfo' = r.info
          /\ IF r.status = UNDEFINED
             THEN \/ aborted' = TRUE /\ infoStatus' = ""
                  \/ /\ aborted' = aborted
                     /\ infoStatus' \in {OK, MODEL_MISSING, UNKNOWN_ERROR}
             ELSE aborted' = aborted /\ infoStatus' = r.status
    /\ vpc' = "described"
    /\ UNCHANGED <<cycleVars, defVars, requestsHandlesCounter, readerVars, writerVars,
                   cfgNodes, cfgConns, vstatus>>

(***************************************************************************)
(* SpecM: as SpecV, for definitions of up to MaxModelNodes nodes whose DL   *)
(* nodes feed one another: chains ENTRY -> DL -> DL -> EXIT over models     *)
(* with equal and with different tensors.                                   *)
(***************************************************************************)
NodeW == DLInfo("n", "W", NoVersion, [o |-> "o"])

ModelNodePool == {NodeE, NodeX, NodeM, NodeN, NodeW}

ModelEdgePool ==
    {Edge("x", "e", <<<<"a", "out">>>>),
     Edge("x", "m", <<<<"o", "out">>>>),
     Edge("x", "n", <<<<"o", "out">>>>),
     Edge("m", "e", <<<<"a", "i">>>>),
     Edge("m", "e", <<<<"a", "j">>>>),
     Edge("n", "e", <<<<"a", "i">>>>),
     Edge("n", "m", <<<<"o", "i">>>>),
     Edge("m", "n", <<<<"o", "i">>>>)}

AddModelNode(info) ==
    /\ vpc = "build"
    /\ Len(cfgNodes) < MaxModelNodes
    /\ cfgNodes' = Append(cfgNodes, info)
    /\ UNCHANGED <<cycleVars, infoVars, defVars, requestsHandlesCounter, aborted, readerVars, writerVars,
                   cfgConns, vpc, vstatus>>

AddModelEdge(edge) ==
    /\ vpc = "build"
    /\ EdgeCount(cfgConns) < MaxModelEdges
    /\ ~HasEdge(cfgConns, edge.dependant, edge.dependency)
    /\ cfgConns' = InsertEdge(cfgConns, edge)
    /\ UNCHANGED <<cycleVars, infoVars, defVars, requestsHandlesCounter, aborted, readerVars, writerVars,
                   cfgNodes, vpc, vstatus>>

NextM ==
    \/ \E info \in ModelNodePool : AddModelNode(info)
    \/ \E edge \in ModelEdgePool : AddModelEdge(edge)
    \/ LoadDefinition
    \/ \E missing \in MissingPool : GetInputsInfo(missing)

SpecM == Init /\ [][NextM]_vars

\* the (dependency, position) of every pair on the edges entering the dependant
PairsInto(conns, dependant) ==
    UNION {{<<y, k>> : k \in 1..Len(conns[dependant][y])} :
           y \in DependenciesAt(conns, dependant)}

\* how many pairs on the edges entering the dependant name the input realName
FeedCount(conns, dependant, realName) ==
    Cardinality({p \in PairsInto(conns, dependant) :
                    conns[dependant][p[1]][p[2]][2] = realName})

\* the realNames on the edges entering the dependant
FedNames(conns, dependant) ==
    {conns[dependant][p[1]][p[2]][2] : p \in PairsInto(conns, dependant)}

AliasDeclared(nodes, dependency, pair) ==
    pair[1] \in DOMAIN NodeNamed(nodes, dependency).outputNameAliases

\* C14: on every edge stored in the connections of an accepted definition,
\* under whatever key, whose dependency is a declared node, the alias of
\* every pair is a key of the dependency's outputNameAliases.
C14_AcceptedAliasesDeclared ==
    Accepted =>
        \A d \in DOMAIN connections :
            \A p \in PairsInto(connections, d) :
                p[1] \in NodeNames(nodeInfos) =>
                    AliasDeclared(nodeInfos, p[1], connections[d][p[1]][p[2]])

\* the <<dependant, dependency, pair>> of every pair on an edge between two
\* declared DL nodes
DLToDLPairs(nodes, conns) ==
    UNION {{<<node, NodeNamed(nodes, p[1]), conns[node.nodeName][p[1]][p[2]]>> :
                p \in {q \in PairsInto(conns, node.nodeName) :
                          /\ q[1] \in NodeNames(nodes)
                          /\ NodeNamed(nodes, q[1]).kind = DL}} :
           node \in DLNodes(nodes)}

\* both tensors of the pair exist: the alias resolves to an output of the
\* dependency's model and realName is an input of the dependant's model
Resolvable(t) ==
    /\ t[3][1] \in DOMAIN t[2].outputNameAliases
    /\ t[2].outputNameAliases[t[3][1]] \in DOMAIN InstanceOf(t[2]).outputs
    /\ t[3][2] \in DOMAIN InstanceOf(t[1]).inputs

TensorInput(t) == InstanceOf(t[1]).inputs[t[3][2]]

TensorOutput(t) == InstanceOf(t[2]).outputs[t[2].outputNameAliases[t[3][1]]]

HasDynamicParameter(node) ==
    /\ node.kind = DL
    /\ HasModelInstance(node.modelName, value_or(node.modelVersion, 0))
    /\ \/ InstanceOf(node).batchingMode = "AUTO"
       \/ \E name \in DOMAIN InstanceOf(node).shapes : InstanceOf(node).shapes[name] = "AUTO"

ValidCounts(nodes) == CountKind(nodes, ENTRY) = 1 /\ CountKind(nodes, EXIT) = 1

\* the loop of validateNodes gets to node i and finds its name once
ReachesNode(nodes, conns, i) ==
    /\ \A j \in 1..i : CountName(nodes, nodes[j].nodeName) = 1
    /\ \A j \in 1..(i - 1) : validateNode(nodes, conns, nodes[j]).status = OK

\* C16 as claimed: validate of a definition with valid ENTRY and EXIT counts
\* that has a DL node with a dynamic model parameter returns
\* FORBIDDEN_MODEL_DYNAMIC_PARAMETER.
C16_DynamicParameterAlwaysReported ==
    (Loaded /\ ValidCounts(nodeInfos) /\ \E node \in DLNodes(nodeInfos) : HasDynamicParameter(node))
        => vstatus = FORBIDDEN_MODEL_DYNAMIC_PARAMETER

\* C16 amended: no accepted definition has a DL node with a dynamic model
\* parameter, and validate returns FORBIDDEN_MODEL_DYNAMIC_PARAMETER, whatever
\* the edges of that node, when the counts are valid and no duplicate name or
\* error of an earlier node stops validateNodes before it gets to the node.
C16_NoAcceptedDynamicParameter ==
    /\ Accepted => \A node \in DLNodes(nodeInfos) : ~HasDynamicParameter(node)
    /\ \A i \in 1..Len(nodeInfos) :
          (/\ Loaded
           /\ ValidCounts(nodeInfos)
           /\ HasDynamicParameter(nodeInfos[i])
           /\ ReachesNode(nodeInfos, cfgConns, i))
              => vstatus = FORBIDDEN_MODEL_DYNAMIC_PARAMETER

\* a node with dynamic shape that has an edge of its own was rejected for
\* the dynamic parameter after the nodes before it had passed
C16_Witness ==
    /\ Loaded
    /\ vstatus = FORBIDDEN_MODEL_DYNAMIC_PARAMETER
    /\ Len(nodeInfos) = 3
    /\ nodeInfos[3] = NodeS
    /\ DependenciesAt(cfgConns, "n") # {}

(***************************************************************************)
(* SpecS: the subscriptions of a definition.  The loader assembles node     *)
(* records, among them DL nodes that share a model and DL nodes whose model *)
(* or version the registry does not have, calls reload, and then            *)
(* makeSubscriptions is called once more on the loaded definition.          *)
(***************************************************************************)
NodeM2 == DLInfo("n", "M", NoVersion, [o |-> "o"])
NodeZ == DLInfo("n", "Z", NoVersion, [o |-> "o"])
NodeV == DLInfo("n", "M", <<2>>, [o |-> "o"])

\* a DL node whose version is given as 0
NodeZero == DLInfo("m", "M", <<0>>, [o |-> "o"])

SubscriberPool == {NodeE, NodeX, NodeM, NodeM2, NodeN, NodeW, NodeZ, NodeV, NodeZero}

AddSubscriber(info) ==
    /\ vpc = "build"
    /\ Len(cfgNodes) < MaxSubscribers
    /\ cfgNodes' = Append(cfgNodes, info)
    /\ UNCHANGED <<cycleVars, infoVars, defVars, requestsHandlesCounter, aborted, readerVars, writerVars,
                   cfgConns, vpc, vstatus>>

\* makeSubscriptions, lines 200-224, called on the loaded definition
MakeSubscriptions ==
    /\ vpc = "loaded"
    /\ \E r \in {makeSubscriptions(nodeInfos, subscriptions, registrySubs)} :
          /\ subscriptions' = r.subscriptions
          /\ registrySubs' = r.registrySubs
    /\ vpc' = "resubscribed"
    /\ UNCHANGED <<cycleVars, infoVars, nodeInfos, connections, requestsHandlesCounter, aborted, readerVars,
                   writerVars, cfgNodes, cfgConns, vstatus>>

SubscriberEdgePool ==
    {Edge("x", "m", <<<<"o", "out">>>>),
     Edge("m", "e", <<<<"a", "i">>>>)}

AddSubscriberEdge(edge) ==
    /\ vpc = "build"
    /\ ~HasEdge(cfgConns, edge.dependant, edge.dependency)
    /\ cfgConns' = InsertEdge(cfgConns, edge)
    /\ UNCHANGED <<cycleVars, infoVars, defVars, requestsHandlesCounter, aborted, readerVars, writerVars,
                   cfgNodes, vpc, vstatus>>

\* retire, lines 76-84, run from call to return
RetireDefinition ==
    /\ vpc \in {"loaded", "resubscribed"}
    /\ ~DrainBlocked(requestsHandlesCounter)
    /\ \E r \in {resetSubscriptions(subscriptions, registrySubs)} :
          /\ subscriptions' = r.subscriptions
          /\ registrySubs' = r.registrySubs
    /\ nodeInfos' = <<>>
    /\ connections' = NoConnections
    /\ vpc' = "retired"
    /\ UNCHANGED <<cycleVars, infoVars, requestsHandlesCounter, aborted, readerVars, writerVars, cfgNodes,
                   cfgConns, vstatus>>

NextS ==
    \/ \E info \in SubscriberPool : AddSubscriber(info)
    \/ \E edge \in SubscriberEdgePool : AddSubscriberEdge(edge)
    \/ LoadDefinition
    \/ MakeSubscriptions
    \/ RetireDefinition

SpecS == Init /\ [][NextS]_vars

\* the key makeSubscriptions files a DL node under
SubscriptionKey(node) == <<node.modelName, value_or(node.modelVersion, 0)>>

\* the registry has the model, and the version when the node names one
TargetExists(node) ==
    /\ findModelByName(node.modelName)
    /\ node.modelVersion # NoVersion =>
          getModelInstanceByVersion(node.modelName, node.modelVersion[1])

\* the keys of the DL nodes whose target exists
SubscribableKeys(nodes) == {SubscriptionKey(node) : node \in {n \in DLNodes(nodes) : TargetExists(n)}}

\* C17: a second makeSubscriptions with no resetSubscriptions in between
\* leaves the subscription set as the first call left it, and after both
\* calls subscribe has been called once for each key of a DL node whose
\* target exists and for nothing else.
C17_MakeSubscriptionsIdempotent ==
    [][(vpc = "loaded" /\ vpc' = "resubscribed") =>
          /\ subscriptions' = subscriptions
          /\ subscriptions' = SubscribableKeys(nodeInfos)
          /\ \A target \in Targets :
                registrySubs'[target] =
                    IF target \in {UnsubscribeTarget(key) : key \in subscriptions'}
                    THEN 1 ELSE 0]_vars

\* makeSubscriptions was called again on a definition in which two DL nodes
\* share a target and a third has none
C17_Witness ==
    /\ vpc = "resubscribed"
    /\ \E i, j, k \in 1..Len(nodeInfos) :
          /\ i # j
          /\ nodeInfos[i].kind = DL /\ nodeInfos[j].kind = DL /\ nodeInfos[k].kind = DL
          /\ TargetExists(nodeInfos[i])
          /\ SubscriptionKey(nodeInfos[i]) = SubscriptionKey(nodeInfos[j])
          /\ ~TargetExists(nodeInfos[k])

\* the <<dependant, pair>> of every pair on an edge whose dependency is the
\* ENTRY node
EntryPairs(nodes, conns) ==
    UNION {{<<d, conns[d][p[1]][p[2]]>> :
                p \in {q \in PairsInto(conns, d) :
                          /\ q[1] \in NodeNames(nodes)
                          /\ NodeNamed(nodes, q[1]).kind = ENTRY}} :
           d \in DOMAIN conns}

\* the declared DL nodes that the ENTRY node feeds
EntryFedDLNodes(nodes, conns) ==
    {node \in DLNodes(nodes) : \E ep \in EntryPairs(nodes, conns) : ep[1] = node.nodeName}

\* the descriptors the DL dependants give the pipeline input alias
DLDescriptors(nodes, conns, alias) ==
    {InstanceOf(node).inputs[ep[2][2]] :
        <<node, ep>> \in {<<n, e>> \in DLNodes(nodes) \X EntryPairs(nodes, conns) :
                            /\ e[1] = n.nodeName
                            /\ e[2][1] = alias
                            /\ e[2][2] \in DOMAIN InstanceOf(n).inputs}}

\* C18: getInputsInfo on an accepted definition returns MODEL_MISSING when
\* the model of a DL node fed by ENTRY is absent; otherwise it returns OK
\* and a map whose keys are the aliases on the edges from ENTRY, an alias
\* that feeds a DL node mapped to the descriptor of that node's model input
\* and an alias that feeds only EXIT mapped to the unspecified descriptor.
C18_InputsInfoOfAcceptedDefinition ==
    [][\A missing \in MissingPool :
          GetInputsInfo(missing) =>
              IF \E node \in EntryFedDLNodes(nodeInfos, connections) : node.modelName \in missing
              THEN ~aborted' /\ infoStatus' = MODEL_MISSING
              ELSE /\ ~aborted'
                   /\ infoStatus' = OK
                   /\ DOMAIN inputsInfo' =
                         {ep[2][1] : ep \in EntryPairs(nodeInfos, connections)}
                   /\ \A alias \in DOMAIN inputsInfo' :
                         IF DLDescriptors(nodeInfos, connections, alias) # {}
                         THEN inputsInfo'[alias] \in DLDescriptors(nodeInfos, connections, alias)
                         ELSE inputsInfo'[alias] = Unspecified]_vars

\* validateNodes returned OK, so that validate returned what
\* validateForCycles returned
NodeValidationPassed ==
    Loaded /\ vstatus \in {OK, CYCLE_FOUND, CONTAINS_UNCONNECTED_NODES}

ReachableFromExit == ReachableFrom(connections, ExitNames(nodeInfos))

\* C19: validateForCycles returns CYCLE_FOUND only when a name reachable
\* from EXIT is on a cycle (a self-loop included), and it returns OK for a
\* definition that passed node validation, has no name on a cycle and has
\* every declared node reachable from EXIT, also when a node is reached along
\* two paths.
C19_NoFalseCycle ==
    /\ (Loaded /\ vstatus = CYCLE_FOUND) =>
          \E name \in ReachableFromExit : OnCycle(connections, name)
    /\ (/\ NodeValidationPassed
        /\ \A name \in ReachableFromExit \cup NodeNames(nodeInfos) :
              ~OnCycle(connections, name)
        /\ NodeNames(nodeInfos) \subseteq ReachableFromExit)
          => vstatus = OK

\* two declared nodes share a nodeName
HasDuplicateName == \E i, j \in 1..Len(nodeInfos) :
    i # j /\ nodeInfos[i].nodeName = nodeInfos[j].nodeName

\* C20: whenever the entry/exit counts are valid and two declared nodes share
\* a nodeName, validate returns NODE_NAME_DUPLICATE, wherever the duplicated
\* nodes stand in nodeInfos and whatever validateNode would return for another
\* node.
C20_DuplicateNameReportedFirst ==
    (Loaded /\ ValidCounts(nodeInfos) /\ HasDuplicateName) => vstatus = NODE_NAME_DUPLICATE

EntryNames(nodes) == {nodes[i].nodeName : i \in {j \in 1..Len(nodes) : nodes[j].kind = ENTRY}}

\* C21: in a definition that validate accepted no edge of connections has the
\* EXIT node as its dependency, whatever its mapping and its dependant, and
\* no edge whose dependant is the ENTRY node has a non-empty mapping.
C21_NoExitDependencyNoEntryMapping ==
    Accepted => \A e \in EdgesOf(connections) :
        /\ e[2] \notin ExitNames(nodeInfos)
        /\ (e[1] \in EntryNames(nodeInfos) => Len(connections[e[1]][e[2]]) = 0)

\* C22: when retire calls resetSubscriptions, every subscribe that
\* makeSubscriptions performed is on the target resetSubscriptions
\* unsubscribes for its key (the instance for a version, the model for none),
\* once per key, and afterwards the subscription set is empty and the
\* registry holds no subscription of the definition; a node with version 0
\* included.
C22_SubscribeUnsubscribeSymmetric ==
    [][RetireDefinition =>
          /\ \A target \in Targets :
                registrySubs[target] =
                    Cardinality({key \in subscriptions : UnsubscribeTarget(key) = target})
          /\ subscriptions' = {}
          /\ registrySubs' = NoRegistrySubs]_vars

\* retire has reset the subscriptions of a definition that had a node with a
\* version, a node with none and a node with version 0
C22_Witness ==
    /\ vpc = "retired"
    /\ subscriptions = {}
    /\ \E i, j, k \in 1..Len(cfgNodes) :
          /\ cfgNodes[i] = NodeN
          /\ cfgNodes[j] = NodeW
          /\ cfgNodes[k] = NodeZero

\* the positions of the DL nodes for which makeSubscriptions finds no model
\* or no instance of the version the node gives
MissingTargetAt(nodes) ==
    {i \in 1..Len(nodes) : nodes[i].kind = DL /\ ~TargetExists(nodes[i])}

\* C23: after a reload whose nodes include a DL node whose model or version
\* the registry lacks, no subscription is recorded for that node, the
\* subscriptions of the other DL nodes are made, and, the ENTRY and EXIT
\* counts being valid and no node before it failing, validate has returned
\* NODE_REFERING_TO_MISSING_MODEL.
C23_MissingModelSkippedThenRejected ==
    (Loaded /\ MissingTargetAt(nodeInfos) # {}) =>
        /\ subscriptions = SubscribableKeys(nodeInfos)
        /\ \A i \in MissingTargetAt(nodeInfos) :
              (ValidCounts(nodeInfos) /\ ReachesNode(nodeInfos, cfgConns, i))
                  => vstatus = REFERING_TO_MISSING_MODEL

\* C25: for a definition that validate accepted create can wire every stored
\* connection: every dependant key and every dependency key of connections
\* names a node made from nodeInfos, and an ENTRY and an EXIT node exist.
C25_AcceptedDefinitionCanBeWired ==
    Accepted => (CanWire(nodeInfos, connections) /\ HasEndpoints(nodeInfos))

\* C26: validate changes no record of the definition: when reload has
\* returned, nodeInfos and connections (keys and edges) are the records that
\* reload stored before it called validate, whatever the status, and
\* validate called once more returns the status it returned.
C26_ValidateReadOnly ==
    Loaded =>
        /\ nodeInfos = cfgNodes
        /\ connections = cfgConns
        /\ validate(nodeInfos, connections).status = vstatus

(***************************************************************************)
(* SpecL: Spec with the scheduling the threads get.  A create that has its  *)
(* guard goes on to its return, where the guard is released; a reload or    *)
(* retire past its drain loop goes on to its return; a drain loop that      *)
(* finds the counter at 0 again and again leaves the loop.  Whether and     *)
(* when a request thread calls create, and a control thread reload or       *)
(* retire, is up to the callers.                                            *)
(***************************************************************************)
ReaderProgress(r) == CreateNodes(r) \/ CreateConnect(r) \/ CreateReturn(r)

WriterProgress(w) ==
    \/ ReloadAssignNodes(w)
    \/ ReloadAssignConnections(w)
    \/ ReloadMakeSubscriptions(w)
    \/ ReloadValidate(w)
    \/ RetireClearNodes(w)
    \/ RetireClearConnections(w)

Fairness ==
    /\ \A r \in Readers : WF_vars(ReaderProgress(r))
    /\ \A w \in Writers : WF_vars(WriterProgress(w))
    /\ \A w \in Writers : SF_vars(Drain(w))

SpecL == Init /\ [][Next]_vars /\ Fairness

\* C24: a reload or retire that is in its drain loop eventually leaves it
\* (or the process has died in create), while request threads go on calling
\* create and every create that holds a guard releases it.
C24_DrainEventuallyCompletes ==
    \A w \in Writers : (wpc[w] \in DrainPcs) ~> (wpc[w] \notin DrainPcs \/ aborted)

(***************************************************************************)
(* SpecC: validateForCycles, lines 453-516, one action per iteration of    *)
(* its while loop, on records of any shape: the loader assembles nodes and *)
(* edges, cyclic, disconnected or naming undeclared nodes, and the check    *)
(* runs on them as stored.                                                  *)
(***************************************************************************)
CycleNodePool == {NodeE, NodeX, NodeM, NodeN}

CycleEdgePool ==
    {edge \in EdgePool :
        \/ edge.dependant = "x" /\ edge.dependency \in {"e", "m"}
        \/ edge.dependant = "m"
        \/ edge.dependant = "n" /\ edge.dependency = "m"
        \/ edge.dependant = "e"}

AddCycleNode(info) ==
    /\ vpc = "build"
    /\ Len(cfgNodes) < MaxCycleNodes
    /\ cfgNodes' = Append(cfgNodes, info)
    /\ UNCHANGED <<cycleVars, infoVars, defVars, requestsHandlesCounter, aborted, readerVars,
                   writerVars, cfgConns, vpc, vstatus>>

AddCycleEdge(edge) ==
    /\ vpc = "build"
    /\ EdgeCount(cfgConns) < MaxCycleEdges
    /\ ~HasEdge(cfgConns, edge.dependant, edge.dependency)
    /\ cfgConns' = InsertEdge(cfgConns, edge)
    /\ UNCHANGED <<cycleVars, infoVars, defVars, requestsHandlesCounter, aborted, readerVars,
                   writerVars, cfgNodes, vpc, vstatus>>

\* lines 454-470 on the records as stored: return without an EXIT node, else
\* start at it
ValidateForCyclesBegin ==
    /\ vpc = "build"
    /\ nodeInfos' = cfgNodes
    /\ connections' = cfgConns
    /\ IF FindExitIndex(cfgNodes) = 0
       THEN /\ vstatus' = MISSING_ENTRY_OR_EXIT
            /\ vpc' = "checked"
            /\ UNCHANGED cycleVars
       ELSE /\ cycNodeName' = cfgNodes[FindExitIndex(cfgNodes)].nodeName
            /\ cycVisited' = <<cfgNodes[FindExitIndex(cfgNodes)].nodeName>>
            /\ cycParentNodes' = <<>>
            /\ vpc' = "cycles"
            /\ UNCHANGED vstatus
    /\ UNCHANGED <<infoVars, subscriptions, registrySubs, requestsHandlesCounter, aborted,
                   readerVars, writerVars, cfgNodes, cfgConns>>

\* the locals after one iteration of the while loop, lines 473-513, or the
\* status it returns
cyclesReturn(returned, nodeName, visited, parentNodes) ==
    [status |-> returned, nodeName |-> nodeName, visited |-> visited,
     parentNodes |-> parentNodes]

\* an iteration that goes back to the parent and leaves it on the stack
whileIterationNoPop(nodes, nodeName, visited, parentNodes, scan) ==
    IF scan.found = "cycle" THEN cyclesReturn(CYCLE_FOUND, nodeName, visited, parentNodes)
    ELSE IF scan.found = "unvisited"
    THEN cyclesReturn("", scan.node, Append(visited, scan.node), Append(parentNodes, nodeName))
    ELSE IF Len(parentNodes) = 0
    THEN IF Len(visited) # Len(nodes)
         THEN cyclesReturn(CONTAINS_UNCONNECTED_NODES, nodeName, visited, parentNodes)
         ELSE cyclesReturn(OK, nodeName, visited, parentNodes)
    ELSE cyclesReturn("", parentNodes[Len(parentNodes)], visited, parentNodes)

whileIteration(nodes, nodeName, visited, parentNodes, scan) ==
    IF scan.found = "cycle" THEN cyclesReturn(CYCLE_FOUND, nodeName, visited, parentNodes)
    ELSE IF scan.found = "unvisited"
    THEN cyclesReturn("", scan.node, Append(visited, scan.node), Append(parentNodes, nodeName))
    ELSE IF Len(parentNodes) = 0
    THEN IF Len(visited) # Len(nodes)
         THEN cyclesReturn(CONTAINS_UNCONNECTED_NODES, nodeName, visited, parentNodes)
         ELSE cyclesReturn(OK, nodeName, visited, parentNodes)
    ELSE cyclesReturn("", parentNodes[Len(parentNodes)], visited,
                      SubSeq(parentNodes, 1, Len(parentNodes) - 1))

\* one iteration of the while loop; connections[nodeName] at line 475
ValidateForCyclesIteration ==
    /\ vpc = "cycles"
    /\ connections' = IndexConnections(connections, cycNodeName)
    /\ \E r \in {whileIteration(nodeInfos, cycNodeName, cycVisited, cycParentNodes,
                       scanConnected(cycNodeName,
                                     SortedKeys(DependenciesAt(connections, cycNodeName)), 1,
                                     cycVisited, cycParentNodes))} :
          /\ cycNodeName' = r.nodeName
          /\ cycVisited' = r.visited
          /\ cycParentNodes' = r.parentNodes
          /\ IF r.status = ""
             THEN UNCHANGED <<vpc, vstatus>>
             ELSE vpc' = "checked" /\ vstatus' = r.status
    /\ UNCHANGED <<infoVars, nodeInfos, subscriptions, registrySubs, requestsHandlesCounter,
                   aborted, readerVars, writerVars, cfgNodes, cfgConns>>

NextC ==
    \/ \E info \in CycleNodePool : AddCycleNode(info)
    \/ \E edge \in CycleEdgePool : AddCycleEdge(edge)
    \/ ValidateForCyclesBegin
    \/ ValidateForCyclesIteration

\* the thread that runs validateForCycles is scheduled
SpecC == Init /\ [][NextC]_vars /\ WF_vars(ValidateForCyclesIteration)

\* C27: validateForCycles terminates on every input: each iteration of its
\* while loop marks a name not visited before, or pops the parent stack, or
\* returns, and a call that has started reaches its return.
C27_ValidateForCyclesTerminates ==
    /\ [][ValidateForCyclesIteration =>
             \/ Len(cycVisited') > Len(cycVisited)
             \/ Len(cycParentNodes') < Len(cycParentNodes)
             \/ vpc' = "checked"]_vars
    /\ (vpc = "cycles") ~> (vpc = "checked")

\* validateForCycles has returned CYCLE_FOUND for records that name an
\* undeclared node, after it went back to a parent
C27_Witness ==
    /\ vpc = "checked"
    /\ vstatus = CYCLE_FOUND
    /\ Len(cycVisited) > Len(cycParentNodes) + 1
    /\ \E name \in DOMAIN connections : name \notin NodeNames(nodeInfos)

====
